---- MODULE Spec2Model ----
(***************************************************************************)
(* Room membership and signaling relay of the clipz server                 *)
(* (server/src/services/socketService.ts).                                 *)
(*                                                                         *)
(* The registry is the pair of module-level maps `rooms` and `socketRooms`;*)
(* `ioRooms` is the Socket.IO adapter's room table (socket.join /          *)
(* socket.leave / io.to), `sockets` the lifecycle of every connection.     *)
(* Each handler is one operator over a registry record                     *)
(*   [rooms, socketRooms, ioRooms, out, raised]                            *)
(* where `out` collects the emit calls of the handler in program order and *)
(* `raised` is set when the handler throws.  Node runs a handler to        *)
(* completion, so each event is one step.  What a handler emits is read    *)
(* off its result: JoinRoom(Cur, c, r, u).out and so on.                   *)
(*                                                                         *)
(* The last part is the room page of the client                            *)
(* (client/src/app/room/[roomId]/page.tsx and client/src/lib/store.ts):    *)
(* its mount effect and the async store functions the effect starts.       *)
(***************************************************************************)
EXTENDS Integers, Sequences, FiniteSets, TLC

\* Number of connections the transport accepts in one run; socket ids are
\* 1..MaxConns, handed out in order and never reused.
MaxConns == 3

Conns == 1..MaxConns

\* What Map.get answers for a missing key.
Undefined == 0

\* Keys that are not on Object.prototype: `rooms[k]` is undefined until set.
RoomKeys == {"r1", "r2"}

\* Keys that `rooms = {}` inherits from Object.prototype: `rooms[k]` is truthy
\* without ever having been assigned, and has no socketIds / userMap.
ProtoKeys == {"__proto__"}

\* Socket.IO joins every socket, when it connects, to the adapter room named
\* by its own id: a caller-supplied room key may spell a socket id.
SocketKey(c) == ToString(c)

SocketKeys == {SocketKey(c) : c \in Conns}

RoomIds == RoomKeys \cup ProtoKeys \cup SocketKeys

\* Caller-supplied user identifiers; the empty string is a legal string.
UserIds == {"", "alice", "bob"}

\* What the clients of one run draw their userIds and room keys from: two
\* userIds over two room keys, or every userId over one room and the
\* inherited key.
Scopes ==
    {[users |-> {"", "alice"}, roomIds |-> RoomKeys],
     [users |-> {"alice", "bob"}, roomIds |-> RoomKeys],
     [users |-> {"alice", "bob"}, roomIds |-> {"r1", SocketKey(1)}],
     [users |-> UserIds, roomIds |-> {"r1"} \cup ProtoKeys]}

\* Opaque signaling payloads.
Signals == {"offer", "answer"}

\* Async calls of the room page that may be in flight at once.
MaxTasks == 4

VARIABLES
    rooms,        \* own properties of `rooms`: roomId -> [socketIds, userMap]
    socketRooms,  \* Map socket.id -> insertion-ordered Set of roomIds
    ioRooms,      \* Socket.IO adapter: roomId -> sockets attached to the room
    sockets,      \* socket.id -> "new" | "open" | "closed"
    raised,       \* TRUE once a handler has thrown (uncaught: the process dies)
    users,        \* the userIds the clients of this run send
    roomIds,      \* the room keys the clients of this run send
    \* one room page of the client (store.ts, page.tsx)
    cameraEnabled,   \* store: cameraEnabled (cameraStream is set with it)
    clientRoomId,    \* store: roomId is set (TRUE) or null (FALSE)
    rendered,        \* cameraEnabled as the mounted effect saw it (empty before mount)
    tasks,           \* the async calls in flight, oldest first
    granted,         \* the answer getUserMedia gets from the user
    joinRoomEmits,   \* join-room events sent so far, modulo 2
    leaveRoomEmits   \* leave-room events sent so far, modulo 2

\* The server's variables and the room page's.
svars == <<rooms, socketRooms, ioRooms, sockets, raised, users, roomIds>>

cvars == <<cameraEnabled, clientRoomId, rendered, tasks, granted,
           joinRoomEmits, leaveRoomEmits>>

vars == <<svars, cvars>>

----------------------------------------------------------------------------
(* userMap: a JS Map<string, string>, kept as the sequence of its entries   *)
(* <<userId, socketId>> in insertion order.                                 *)

UMIndex(um, u) ==
    IF \E i \in 1..Len(um) : um[i][1] = u
    THEN CHOOSE i \in 1..Len(um) : um[i][1] = u
    ELSE 0

UMHas(um, u) == UMIndex(um, u) # 0

UMGet(um, u) == IF UMHas(um, u) THEN um[UMIndex(um, u)][2] ELSE Undefined

UMSet(um, u, s) ==
    IF UMHas(um, u)
    THEN [um EXCEPT ![UMIndex(um, u)] = <<u, s>>]
    ELSE Append(um, <<u, s>>)

UMDelete(um, u) == SelectSeq(um, LAMBDA e : e[1] # u)

UMKeys(um) == [i \in 1..Len(um) |-> um[i][1]]

UMValues(um) == {um[i][2] : i \in 1..Len(um)}

(* A JS Set<string> of room ids, kept in insertion order.                   *)

SeqHas(s, x) == \E i \in 1..Len(s) : s[i] = x

SeqAdd(s, x) == IF SeqHas(s, x) THEN s ELSE Append(s, x)

SeqDelete(s, x) == SelectSeq(s, LAMBDA e : e # x)

SeqSet(s) == {s[i] : i \in 1..Len(s)}

NewRoom == [socketIds |-> {}, userMap |-> <<>>]

RoomExists(rs, roomId) == roomId \in DOMAIN rs

DeleteRoom(rs, roomId) == [k \in (DOMAIN rs) \ {roomId} |-> rs[k]]

----------------------------------------------------------------------------
(* Emit calls.                                                              *)

\* socket.to(roomId): the adapter room without the emitting socket.
SocketTo(st, socket, roomId) == st.ioRooms[roomId] \ {socket}

\* io.to(roomId): the whole adapter room.
IoTo(st, roomId) == st.ioRooms[roomId]

EmitUserJoined(st, socket, roomId, userId) ==
    [st EXCEPT !.out = Append(@, [ev |-> "user-joined", room |-> roomId,
                                  user |-> userId,
                                  to |-> SocketTo(st, socket, roomId)])]

EmitUserLeft(st, socket, roomId, userId) ==
    [st EXCEPT !.out = Append(@, [ev |-> "user-left", room |-> roomId,
                                  user |-> userId,
                                  to |-> SocketTo(st, socket, roomId)])]

EmitRoomUsers(st, roomId) ==
    [st EXCEPT !.out = Append(@, [ev |-> "room-users", room |-> roomId,
                                  users |-> UMKeys(st.rooms[roomId].userMap),
                                  to |-> IoTo(st, roomId)])]

EmitSignal(st, socket, roomId, userId, signal) ==
    [st EXCEPT !.out = Append(@, [ev |-> "signal", room |-> roomId,
                                  user |-> userId, signal |-> signal,
                                  to |-> SocketTo(st, socket, roomId)])]

\* Reading a property of undefined: TypeError, the handler stops here.
Throw(st) == [st EXCEPT !.raised = TRUE]

----------------------------------------------------------------------------
(* join-room                                                                *)

\* if (!rooms[roomId]) rooms[roomId] = { socketIds: new Set(), userMap: new Map() }
CreateRoom(st, roomId) ==
    IF RoomExists(st.rooms, roomId)
    THEN st
    ELSE [st EXCEPT !.rooms = roomId :> NewRoom @@ @]

\* Mutant of EvictStale: the evicted socket keeps the room in its socketRooms
\* entry.
EvictStaleKeepIndex(st, socket, roomId, userId) ==
    LET existingSocketId == UMGet(st.rooms[roomId].userMap, userId) IN
    IF existingSocketId # Undefined /\ existingSocketId # socket
       /\ existingSocketId \in st.rooms[roomId].socketIds
    THEN [st EXCEPT
            !.rooms[roomId].socketIds = @ \ {existingSocketId},
            !.ioRooms[roomId] = @ \ {existingSocketId}]
    ELSE st

\* Mutant of EvictStale: the eviction is announced like a departure.
EvictStaleAnnounce(st, socket, roomId, userId) ==
    LET existingSocketId == UMGet(st.rooms[roomId].userMap, userId) IN
    IF existingSocketId # Undefined /\ existingSocketId # socket
       /\ existingSocketId \in st.rooms[roomId].socketIds
    THEN EmitUserLeft(
           [st EXCEPT
              !.rooms[roomId].socketIds = @ \ {existingSocketId},
              !.socketRooms =
                  IF existingSocketId \in DOMAIN @
                  THEN [@ EXCEPT ![existingSocketId] = SeqDelete(@, roomId)]
                  ELSE @,
              !.ioRooms[roomId] = @ \ {existingSocketId}],
           existingSocketId, roomId, userId)
    ELSE st

\* The stale-user branch: userId is held by another socket.
EvictStale(st, socket, roomId, userId) ==
    LET existingSocketId == UMGet(st.rooms[roomId].userMap, userId) IN
    IF existingSocketId # Undefined /\ existingSocketId # socket
       /\ existingSocketId \in st.rooms[roomId].socketIds
    THEN [st EXCEPT
            !.rooms[roomId].socketIds = @ \ {existingSocketId},
            !.socketRooms =
                IF existingSocketId \in DOMAIN @
                THEN [@ EXCEPT ![existingSocketId] = SeqDelete(@, roomId)]
                ELSE @,
            \* oldSocket.leave(roomId), when the old socket is still connected
            !.ioRooms[roomId] = @ \ {existingSocketId}]
    ELSE st

\* Mutant of Admit: user-joined goes out through io.to, the joiner included.
AdmitTellAll(st, socket, roomId, userId) ==
    LET added == [st EXCEPT
                    !.rooms[roomId].socketIds = @ \cup {socket},
                    !.rooms[roomId].userMap = UMSet(@, userId, socket),
                    !.socketRooms =
                        IF socket \in DOMAIN @
                        THEN [@ EXCEPT ![socket] = SeqAdd(@, roomId)]
                        ELSE @,
                    !.ioRooms[roomId] = @ \cup {socket}]
        joined == [added EXCEPT !.out =
                      Append(@, [ev |-> "user-joined", room |-> roomId,
                                 user |-> userId, to |-> IoTo(added, roomId)])]
    IN EmitRoomUsers(joined, roomId)

\* The admission branch: the socket is not yet in the room.
Admit(st, socket, roomId, userId) ==
    LET added == [st EXCEPT
                    !.rooms[roomId].socketIds = @ \cup {socket},
                    !.rooms[roomId].userMap = UMSet(@, userId, socket),
                    !.socketRooms =
                        IF socket \in DOMAIN @
                        THEN [@ EXCEPT ![socket] = SeqAdd(@, roomId)]
                        ELSE @,
                    !.ioRooms[roomId] = @ \cup {socket}]
    IN EmitRoomUsers(EmitUserJoined(added, socket, roomId, userId), roomId)

\* Mutant of JoinRoom: the admission runs whether or not the socket is in
\* socketIds already.
JoinRoomAlwaysAdmit(st, socket, roomId, userId) ==
    IF roomId \in ProtoKeys
    THEN Throw(st)
    ELSE Admit(EvictStale(CreateRoom(st, roomId), socket, roomId, userId),
               socket, roomId, userId)

JoinRoom(st, socket, roomId, userId) ==
    IF roomId \in ProtoKeys
    THEN \* rooms[roomId] is truthy, rooms[roomId].userMap is undefined
         Throw(st)
    ELSE LET evicted == EvictStale(CreateRoom(st, roomId), socket, roomId, userId)
         IN IF socket \notin evicted.rooms[roomId].socketIds
            THEN Admit(evicted, socket, roomId, userId)
            ELSE evicted

----------------------------------------------------------------------------
(* signal                                                                   *)

\* Mutant of Signal: the relay leaves out the connection bound to the named
\* userId instead of the submitting socket.
SignalExceptNamedUser(st, socket, roomId, userId, signal) ==
    [st EXCEPT !.out = Append(@, [ev |-> "signal", room |-> roomId,
                                  user |-> userId, signal |-> signal,
                                  to |-> st.ioRooms[roomId] \
                                         {IF RoomExists(st.rooms, roomId)
                                          THEN UMGet(st.rooms[roomId].userMap, userId)
                                          ELSE Undefined}])]

\* Mutant of Signal: the relay goes to every room the socket is in.
SignalEveryRoomOfSocket(st, socket, roomId, userId, signal) ==
    [st EXCEPT !.out = Append(@, [ev |-> "signal", room |-> roomId,
                                  user |-> userId, signal |-> signal,
                                  to |-> (st.ioRooms[roomId] \cup
                                          UNION {st.ioRooms[q] :
                                                 q \in IF socket \in DOMAIN st.socketRooms
                                                       THEN {st.socketRooms[socket][i] :
                                                             i \in 1..Len(st.socketRooms[socket])}
                                                       ELSE {}})
                                         \ {socket}])]

Signal(st, socket, roomId, userId, signal) ==
    EmitSignal(st, socket, roomId, userId, signal)

----------------------------------------------------------------------------
(* leave-room and disconnect                                                *)

\* Mutant of RemoveFromRoom: the room is kept when its last member goes.
RemoveFromRoomKeepEmpty(st, socket, roomId, userId) ==
    LET removed == [st EXCEPT
                      !.rooms[roomId].userMap = UMDelete(@, userId),
                      !.rooms[roomId].socketIds = @ \ {socket},
                      !.socketRooms =
                          IF socket \in DOMAIN @
                          THEN [@ EXCEPT ![socket] = SeqDelete(@, roomId)]
                          ELSE @,
                      !.ioRooms[roomId] = @ \ {socket}]
    IN EmitRoomUsers(EmitUserLeft(removed, socket, roomId, userId), roomId)

\* Mutant of RemoveFromRoom: the room stays in the socket's socketRooms entry.
RemoveFromRoomKeepIndex(st, socket, roomId, userId) ==
    LET removed == [st EXCEPT
                      !.rooms[roomId].userMap = UMDelete(@, userId),
                      !.rooms[roomId].socketIds = @ \ {socket},
                      !.ioRooms[roomId] = @ \ {socket}]
        told == EmitUserLeft(removed, socket, roomId, userId)
    IN IF told.rooms[roomId].socketIds = {}
       THEN [told EXCEPT !.rooms = DeleteRoom(@, roomId)]
       ELSE EmitRoomUsers(told, roomId)

\* Mutant of RemoveFromRoom: neither the userMap entry nor the emptied room is
\* deleted.
RemoveFromRoomKeepUserMap(st, socket, roomId, userId) ==
    LET removed == [st EXCEPT
                      !.rooms[roomId].socketIds = @ \ {socket},
                      !.socketRooms =
                          IF socket \in DOMAIN @
                          THEN [@ EXCEPT ![socket] = SeqDelete(@, roomId)]
                          ELSE @,
                      !.ioRooms[roomId] = @ \ {socket}]
        told == EmitUserLeft(removed, socket, roomId, userId)
    IN IF told.rooms[roomId].socketIds = {}
       THEN told
       ELSE EmitRoomUsers(told, roomId)

\* The removal part of leaveRoom, after its three early returns.
RemoveFromRoom(st, socket, roomId, userId) ==
    LET removed == [st EXCEPT
                      !.rooms[roomId].userMap = UMDelete(@, userId),
                      !.rooms[roomId].socketIds = @ \ {socket},
                      !.socketRooms =
                          IF socket \in DOMAIN @
                          THEN [@ EXCEPT ![socket] = SeqDelete(@, roomId)]
                          ELSE @,
                      !.ioRooms[roomId] = @ \ {socket}]
        told == EmitUserLeft(removed, socket, roomId, userId)
    IN IF told.rooms[roomId].socketIds = {}
       THEN [told EXCEPT !.rooms = DeleteRoom(@, roomId)]
       ELSE EmitRoomUsers(told, roomId)

LeaveRoom(st, socket, roomId, userId) ==
    IF roomId \in ProtoKeys
    THEN \* !rooms[roomId] is false, rooms[roomId].userMap.has throws
         Throw(st)
    ELSE IF ~RoomExists(st.rooms, roomId) THEN st
    ELSE IF ~UMHas(st.rooms[roomId].userMap, userId) THEN st
    ELSE IF UMGet(st.rooms[roomId].userMap, userId) # socket THEN st
    ELSE RemoveFromRoom(st, socket, roomId, userId)

\* The scan of the disconnect handler: the first userMap entry whose value is
\* the socket, in insertion order; found = FALSE stands for `undefined`.
FindUserId(st, socket, roomId) ==
    IF ~RoomExists(st.rooms, roomId)
    THEN [found |-> FALSE, uid |-> ""]
    ELSE LET um == st.rooms[roomId].userMap
             hits == {i \in 1..Len(um) : um[i][2] = socket}
         IN IF hits = {}
            THEN [found |-> FALSE, uid |-> ""]
            ELSE [found |-> TRUE,
                  uid |-> um[CHOOSE i \in hits : \A j \in hits : i <= j][1]]

\* if (userId): undefined and the empty string are both falsy.
Truthy(u) == u.found /\ u.uid # ""

\* One iteration of `for (const roomId of userRooms)`.
DisconnectFromRoom(st, socket, roomId) ==
    LET userId == FindUserId(st, socket, roomId) IN
    IF Truthy(userId) THEN LeaveRoom(st, socket, roomId, userId.uid) ELSE st

RECURSIVE DisconnectLoop(_, _, _)
DisconnectLoop(st, socket, userRooms) ==
    IF userRooms = <<>> \/ st.raised
    THEN st
    ELSE DisconnectLoop(DisconnectFromRoom(st, socket, Head(userRooms)),
                        socket, Tail(userRooms))

\* Socket.IO has detached the socket from every adapter room by the time the
\* "disconnect" handlers run.
LeaveAll(st, socket) ==
    [st EXCEPT !.ioRooms = [r \in DOMAIN @ |-> @[r] \ {socket}]]

\* Mutant of Disconnect: the handler walks every existing room instead of the
\* socket's own socketRooms entry.
DisconnectEveryRoom(st, socket) ==
    LET gone == LeaveAll(st, socket)
        RECURSIVE Walk(_, _)
        Walk(s, todo) ==
            IF todo = {} \/ s.raised
            THEN s
            ELSE LET roomId == CHOOSE r \in todo : TRUE
                 IN Walk(DisconnectFromRoom(s, socket, roomId), todo \ {roomId})
        left == Walk(gone, DOMAIN gone.rooms)
    IN [left EXCEPT !.socketRooms = [c \in (DOMAIN @) \ {socket} |-> @[c]]]

Disconnect(st, socket) ==
    LET gone == LeaveAll(st, socket)
        userRooms == IF socket \in DOMAIN gone.socketRooms
                     THEN gone.socketRooms[socket] ELSE <<>>
        left == DisconnectLoop(gone, socket, userRooms)
    IN IF left.raised
       THEN left
       ELSE [left EXCEPT !.socketRooms =
                [c \in (DOMAIN @) \ {socket} |-> @[c]]]

----------------------------------------------------------------------------
(* The state machine.                                                       *)

\* The registry as the handlers see it at the start of an event.
Cur == [rooms |-> rooms, socketRooms |-> socketRooms, ioRooms |-> ioRooms,
        out |-> <<>>, raised |-> FALSE]

Open == {c \in Conns : sockets[c] = "open"}

\* The room keys a client can send: a socket id exists once it is handed out.
RoomIdsNow ==
    {r \in RoomIds : \A c \in Conns : r = SocketKey(c) => sockets[c] # "new"}

Apply(st) ==
    /\ rooms' = st.rooms
    /\ socketRooms' = st.socketRooms
    /\ ioRooms' = st.ioRooms
    /\ raised' = st.raised

\* create<AppState>(...): the store before any page has mounted.
StoreInit ==
    /\ cameraEnabled = FALSE
    /\ clientRoomId = FALSE
    /\ rendered = <<>>
    /\ tasks = <<>>
    /\ joinRoomEmits = 0
    /\ leaveRoomEmits = 0

Init ==
    /\ rooms = <<>>
    /\ socketRooms = <<>>
    /\ ioRooms = [r \in RoomIds |-> {}]
    /\ sockets = [c \in Conns |-> "new"]
    /\ raised = FALSE
    /\ \E scope \in Scopes :
          /\ users = scope.users
          /\ roomIds = scope.roomIds
    /\ StoreInit
    /\ granted = FALSE

\* io.on("connection"): the transport hands out the next unused socket id.
Connection ==
    /\ ~raised
    /\ UNCHANGED cvars
    /\ \E c \in Conns :
        /\ sockets[c] = "new"
        /\ \A d \in Conns : d < c => sockets[d] # "new"
        /\ sockets' = [sockets EXCEPT ![c] = "open"]
        /\ socketRooms' = (c :> <<>>) @@ socketRooms
        /\ ioRooms' = [ioRooms EXCEPT ![SocketKey(c)] = @ \cup {c}]
        /\ UNCHANGED <<rooms, raised, users, roomIds>>

OnJoinRoom ==
    /\ ~raised
    /\ UNCHANGED cvars
    /\ \E c \in Open, roomId \in roomIds \cap RoomIdsNow, userId \in users :
        /\ Apply(JoinRoom(Cur, c, roomId, userId))
        /\ UNCHANGED <<sockets, users, roomIds>>

OnSignal ==
    /\ ~raised
    /\ UNCHANGED cvars
    /\ \E c \in Open, roomId \in roomIds \cap RoomIdsNow, userId \in users, signal \in Signals :
        /\ Apply(Signal(Cur, c, roomId, userId, signal))
        /\ UNCHANGED <<sockets, users, roomIds>>

OnLeaveRoom ==
    /\ ~raised
    /\ UNCHANGED cvars
    /\ \E c \in Open, roomId \in roomIds \cap RoomIdsNow, userId \in users :
        /\ Apply(LeaveRoom(Cur, c, roomId, userId))
        /\ UNCHANGED <<sockets, users, roomIds>>

OnDisconnect ==
    /\ ~raised
    /\ UNCHANGED cvars
    /\ \E c \in Open :
        /\ Apply(Disconnect(Cur, c))
        /\ sockets' = [sockets EXCEPT ![c] = "closed"]
        /\ UNCHANGED <<users, roomIds>>

Next ==
    \/ Connection
    \/ OnJoinRoom
    \/ OnSignal
    \/ OnLeaveRoom
    \/ OnDisconnect

Spec == Init /\ [][Next]_vars

----------------------------------------------------------------------------
(* The room page of the client.                                             *)
(*                                                                          *)
(* useEffect(() => { initializeRoom(); return () => { leaveRoom(); }; },    *)
(*           [roomId, joinRoom, leaveRoom, cameraEnabled, toggleCamera])    *)
(* The store functions are stable, so the effect runs at mount and again,   *)
(* after its cleanup, whenever cameraEnabled differs from the value it ran  *)
(* with.  An async function runs to its next await in one step; calls that  *)
(* were started are never cancelled.                                        *)

\* initializeRoom(), started by an effect that saw cameraEnabled = cam.
InitializeRoom(cam) ==
    [fn |-> "initializeRoom", cameraEnabled |-> cam, at |-> "joinRoom"]

\* The store's leaveRoom(), waiting for socketLeaveRoom.
LeaveRoomCall == [fn |-> "leaveRoom", cameraEnabled |-> FALSE,
                  at |-> "socketLeaveRoom"]

Without(s, i) == [j \in 1..(Len(s) - 1) |-> IF j < i THEN s[j] ELSE s[j + 1]]

Moved(s, i, at) == [s EXCEPT ![i].at = at]

Flip(n) == (n + 1) % 2

\* The page mounts: first run of the effect.
Mount ==
    /\ rendered = <<>>
    /\ rendered' = <<cameraEnabled>>
    /\ tasks' = Append(tasks, InitializeRoom(cameraEnabled))
    /\ UNCHANGED <<cameraEnabled, clientRoomId, granted, joinRoomEmits,
                   leaveRoomEmits, svars>>

\* store.joinRoom after its two imports: set({ roomId, ... }), the peer
\* connection, then socketJoinRoom up to `await getUserId()`.
StoreJoinRoom ==
    \E i \in 1..Len(tasks) :
        /\ tasks[i].fn = "initializeRoom" /\ tasks[i].at = "joinRoom"
        /\ clientRoomId' = TRUE
        /\ tasks' = Moved(tasks, i, "socketJoinRoom")
        /\ UNCHANGED <<cameraEnabled, rendered, granted, joinRoomEmits,
                       leaveRoomEmits, svars>>

\* socket.emit("join-room", roomId, userId); joinRoom returns to
\* initializeRoom.
SocketJoinRoom ==
    \E i \in 1..Len(tasks) :
        /\ tasks[i].fn = "initializeRoom" /\ tasks[i].at = "socketJoinRoom"
        /\ joinRoomEmits' = Flip(joinRoomEmits)
        /\ tasks' = Moved(tasks, i, "toggleCamera")
        /\ UNCHANGED <<cameraEnabled, clientRoomId, rendered, granted,
                       leaveRoomEmits, svars>>

\* if (!cameraEnabled) await toggleCamera(), with the effect's cameraEnabled;
\* toggleCamera reads the store: it stops a running camera at once, or asks
\* for one.
ToggleCamera ==
    \E i \in 1..Len(tasks) :
        /\ tasks[i].fn = "initializeRoom" /\ tasks[i].at = "toggleCamera"
        /\ IF tasks[i].cameraEnabled
           THEN /\ tasks' = Without(tasks, i)
                /\ UNCHANGED cameraEnabled
           ELSE IF cameraEnabled
           THEN /\ cameraEnabled' = FALSE
                /\ tasks' = Without(tasks, i)
           ELSE /\ tasks' = Moved(tasks, i, "getUserMedia")
                /\ UNCHANGED cameraEnabled
        /\ UNCHANGED <<clientRoomId, rendered, granted, joinRoomEmits,
                       leaveRoomEmits, svars>>

\* navigator.mediaDevices.getUserMedia settles: set({ cameraEnabled: true,
\* cameraStream }) when granted, the catch branch otherwise.
GetUserMedia ==
    \E i \in 1..Len(tasks) :
        /\ tasks[i].fn = "initializeRoom" /\ tasks[i].at = "getUserMedia"
        /\ cameraEnabled' = IF granted THEN TRUE ELSE cameraEnabled
        /\ tasks' = Without(tasks, i)
        /\ UNCHANGED <<clientRoomId, rendered, granted, joinRoomEmits,
                       leaveRoomEmits, svars>>

\* cameraEnabled differs from what the mounted effect ran with: React runs
\* the cleanup, leaveRoom(), and the effect again.  leaveRoom with no roomId
\* in the store has no await before its set(...).
Rerun ==
    /\ rendered # <<>>
    /\ cameraEnabled # rendered[1]
    /\ Len(tasks) + (IF clientRoomId THEN 2 ELSE 1) <= MaxTasks
    /\ rendered' = <<cameraEnabled>>
    /\ IF clientRoomId
       THEN /\ tasks' = tasks \o <<LeaveRoomCall, InitializeRoom(cameraEnabled)>>
            /\ UNCHANGED <<cameraEnabled, clientRoomId>>
       ELSE /\ tasks' = Append(tasks, InitializeRoom(cameraEnabled))
            /\ cameraEnabled' = FALSE
            /\ clientRoomId' = FALSE
    /\ UNCHANGED <<granted, joinRoomEmits, leaveRoomEmits, svars>>

\* socket.emit("leave-room", roomId, userId).
SocketLeaveRoom ==
    \E i \in 1..Len(tasks) :
        /\ tasks[i].fn = "leaveRoom" /\ tasks[i].at = "socketLeaveRoom"
        /\ leaveRoomEmits' = Flip(leaveRoomEmits)
        /\ tasks' = Moved(tasks, i, "set")
        /\ UNCHANGED <<cameraEnabled, clientRoomId, rendered, granted,
                       joinRoomEmits, svars>>

\* The end of leaveRoom: set({ roomId: null, ..., cameraEnabled: false, ... }).
LeaveRoomSet ==
    \E i \in 1..Len(tasks) :
        /\ tasks[i].fn = "leaveRoom" /\ tasks[i].at = "set"
        /\ cameraEnabled' = FALSE
        /\ clientRoomId' = FALSE
        /\ tasks' = Without(tasks, i)
        /\ UNCHANGED <<rendered, granted, joinRoomEmits, leaveRoomEmits, svars>>

\* A page about to mount; the user grants the camera or not.
ClientInit ==
    /\ rooms = <<>>
    /\ socketRooms = <<>>
    /\ ioRooms = [r \in RoomIds |-> {}]
    /\ sockets = [c \in Conns |-> "new"]
    /\ raised = FALSE
    /\ users = {"alice"}
    /\ roomIds = {"r1"}
    /\ StoreInit
    /\ granted \in BOOLEAN

ClientNext ==
    \/ Mount
    \/ StoreJoinRoom
    \/ SocketJoinRoom
    \/ ToggleCamera
    \/ GetUserMedia
    \/ Rerun
    \/ SocketLeaveRoom
    \/ LeaveRoomSet

\* Every started call goes on and React runs every effect that is due.
ClientSpec ==
    /\ ClientInit
    /\ [][ClientNext]_vars
    /\ WF_vars(Mount)
    /\ WF_vars(StoreJoinRoom)
    /\ WF_vars(SocketJoinRoom)
    /\ WF_vars(ToggleCamera)
    /\ WF_vars(GetUserMedia)
    /\ WF_vars(Rerun)
    /\ WF_vars(SocketLeaveRoom)
    /\ WF_vars(LeaveRoomSet)

----------------------------------------------------------------------------
(* Reading the registry.                                                    *)

\* rooms[roomId].socketIds, empty when the room does not exist.
Members(rs, roomId) == IF RoomExists(rs, roomId) THEN rs[roomId].socketIds ELSE {}

\* rooms[roomId].userMap, empty when the room does not exist.
UserMapOf(rs, roomId) == IF RoomExists(rs, roomId) THEN rs[roomId].userMap ELSE <<>>

\* The userIds of a userMap whose value is the socket.
UsersOf(um, socket) == {um[i][1] : i \in {j \in 1..Len(um) : um[j][2] = socket}}

\* socketRooms.get(socket), empty when the socket has no entry.
RoomsOf(sr, socket) == IF socket \in DOMAIN sr THEN SeqSet(sr[socket]) ELSE {}

\* The emit calls of a handler's result for one event name and room.
Emits(o, ev, roomId) == {i \in 1..Len(o) : o[i].ev = ev /\ o[i].room = roomId}

EmitsOf(o, ev) == {i \in 1..Len(o) : o[i].ev = ev}

\* A handler's result, taken as the registry the next event starts from.
After(st) == [st EXCEPT !.out = <<>>]

SameRegistry(a, b) ==
    /\ a.rooms = b.rooms
    /\ a.socketRooms = b.socketRooms
    /\ a.ioRooms = b.ioRooms

----------------------------------------------------------------------------
(* Claims.                                                                  *)

\* C1: in every reachable state, every connection in a room's socketIds is the
\* value of exactly one userMap entry of that room.
C1_MemberBoundOnce ==
    \A r \in DOMAIN rooms :
        \A c \in rooms[r].socketIds :
            Cardinality(UsersOf(rooms[r].userMap, c)) = 1

\* C2: in every reachable state, every connection that is a value of a room's
\* userMap is in that room's socketIds.
C2_BoundIsMember ==
    \A r \in DOMAIN rooms : UMValues(rooms[r].userMap) \subseteq rooms[r].socketIds

\* C3: for every open connection c and room key r, r is in socketRooms[c] iff
\* the room r exists and c is in its socketIds.
C3_ReverseIndexConsistent ==
    \A c \in Open, r \in RoomIdsNow :
        (r \in RoomsOf(socketRooms, c)) <=> (c \in Members(rooms, r))

\* C3 witness: an open connection sits in both rooms while another open
\* connection has been evicted from a room that still names it in userMap.
C3_Witness ==
    \E c, d \in Open :
        /\ c # d
        /\ RoomKeys \subseteq RoomsOf(socketRooms, c)
        /\ \E r \in DOMAIN rooms :
              /\ d \in UMValues(rooms[r].userMap)
              /\ d \notin rooms[r].socketIds
              /\ r \notin RoomsOf(socketRooms, d)

\* C4: processing Join(r, u, c) twice in a row leaves the registry that one
\* Join leaves, and the second call emits nothing and raises no error.
C4_IdempotentJoin ==
    \A c \in Open, r \in RoomIdsNow, u \in users :
        LET once == JoinRoom(Cur, c, r, u)
            twice == JoinRoom(After(once), c, r, u)
        IN /\ SameRegistry(twice, once)
           /\ twice.out = <<>>
           /\ ~twice.raised

\* C5: when c1 is in room r bound to u and another connection c2, not in r,
\* joins r as u, then afterwards userMap[u] = c2, c1 is not in socketIds, r is
\* not in socketRooms[c1], the join emits exactly one room-users and no
\* user-left.
C5_ReconnectEviction ==
    \A r \in DOMAIN rooms, u \in users :
        LET c1 == UMGet(rooms[r].userMap, u) IN
        c1 \in rooms[r].socketIds =>
        \A c2 \in Open \ rooms[r].socketIds :
           LET j == JoinRoom(Cur, c2, r, u) IN
           /\ ~j.raised
           /\ UMGet(UserMapOf(j.rooms, r), u) = c2
           /\ c1 \notin Members(j.rooms, r)
           /\ r \notin RoomsOf(j.socketRooms, c1)
           /\ Cardinality(EmitsOf(j.out, "room-users")) = 1
           /\ EmitsOf(j.out, "user-left") = {}

\* C5 witness: c1 holds u in r, a third connection looks on, and c2's join as
\* u sends the one roster to the bystander and to c2 but not to c1.
C5_Witness ==
    \E c1, c2, c3 \in Open, r \in DOMAIN rooms, u \in users :
        /\ c1 # c2 /\ c3 \notin {c1, c2}
        /\ {c1, c3} \subseteq rooms[r].socketIds
        /\ UMGet(rooms[r].userMap, u) = c1
        /\ c2 \notin rooms[r].socketIds
        /\ LET j == JoinRoom(Cur, c2, r, u) IN
           /\ j.rooms[r].socketIds = (rooms[r].socketIds \ {c1}) \cup {c2}
           /\ \E i \in EmitsOf(j.out, "room-users") : j.out[i].to = {c2, c3}

\* C6: once the disconnect of a connection has been processed, the connection
\* is in no room's socketIds, no userMap maps any userId to it, and socketRooms
\* has no entry for it.
C6_DisconnectCleans ==
    \A c \in Conns :
        sockets[c] = "closed" =>
            /\ c \notin DOMAIN socketRooms
            /\ \A r \in DOMAIN rooms :
                  /\ c \notin rooms[r].socketIds
                  /\ c \notin UMValues(rooms[r].userMap)

\* C7: while one disconnect is processed, each room the connection occupied
\* emits at most one user-left and at most one room-users, and a room it did
\* not occupy emits nothing.
C7_DisconnectEmitsOncePerRoom ==
    \A c \in Open :
        LET d == Disconnect(Cur, c) IN
        \/ d.out = <<>>
        \/ \A r \in RoomIdsNow :
              /\ Cardinality(Emits(d.out, "user-left", r)) <= 1
              /\ Cardinality(Emits(d.out, "room-users", r)) <= 1
              /\ c \notin Members(rooms, r) =>
                     \A i \in 1..Len(d.out) : d.out[i].room # r

\* C7 witness: a connection that shares both rooms with another open
\* connection disconnects, and each room gets its user-left and its roster.
C7_Witness ==
    \E c \in Open :
        /\ \A r \in RoomKeys : \E d \in Open \ {c} : {c, d} \subseteq Members(rooms, r)
        /\ LET d == Disconnect(Cur, c) IN
           \A r \in RoomKeys :
               /\ Cardinality(Emits(d.out, "user-left", r)) = 1
               /\ Cardinality(Emits(d.out, "room-users", r)) = 1
               /\ c \notin Members(d.rooms, r)

\* C8: after every event no existing room has an empty socketIds; a room
\* comes into being only by the join that adds its first member, and goes
\* only in the leave or disconnect that removes its last member.
C8_RoomLifecycle ==
    [][\A r \in RoomKeys :
          /\ RoomExists(rooms', r) => rooms'[r].socketIds # {}
          /\ (~RoomExists(rooms, r) /\ RoomExists(rooms', r)) =>
                \E c \in Open, u \in users :
                    /\ rooms' = JoinRoom(Cur, c, r, u).rooms
                    /\ rooms'[r].socketIds = {c}
          /\ (RoomExists(rooms, r) /\ ~RoomExists(rooms', r)) =>
                \E c \in Open :
                    /\ rooms[r].socketIds = {c}
                    /\ \/ rooms' = Disconnect(Cur, c).rooms
                       \/ \E u \in users : rooms' = LeaveRoom(Cur, c, r, u).rooms
      ]_vars

\* C8 witness: a room whose only member leaves is gone after the leave, while
\* the other room, still occupied, stays.
C8_Witness ==
    \E c \in Open, r \in DOMAIN rooms, u \in users :
        /\ rooms[r].socketIds = {c}
        /\ \E q \in (DOMAIN rooms) \ {r} : rooms[q].socketIds # {}
        /\ LET l == LeaveRoom(Cur, c, r, u) IN
           /\ ~RoomExists(l.rooms, r)
           /\ DOMAIN l.rooms = (DOMAIN rooms) \ {r}

\* The connections a handler's signal emits reach.
SignalReaches(o, roomId) == UNION {o[i].to : i \in Emits(o, "signal", roomId)}

C10_RelayToMembersButSubmitter ==
    \A c \in Open, r \in RoomIdsNow, u \in users, signal \in Signals :
        LET s == Signal(Cur, c, r, u, signal) IN
        /\ ~s.raised
        /\ Len(s.out) = 1
        /\ s.out[1].ev = "signal"
        /\ s.out[1].user = u
        /\ s.out[1].signal = signal
        /\ s.out[1].to = Members(rooms, r) \ {c}

\* The emit calls of a handler that reach at least one connection.
Delivered(o) == SelectSeq(o, LAMBDA e : e.to # {})

\* C11: the reference scenario.  With no rooms and two open connections cA and
\* cB: Join(r1, alice, cA) delivers room-users [alice] to cA;
\* Join(r1, bob, cB) delivers user-joined(bob) to cA only and room-users
\* [alice, bob] to both; signal(r1, bob, offer) from cB reaches cA only;
\* Leave(r1, alice, cA) delivers user-left(alice) and room-users [bob] to cB
\* only and r1 still exists; Disconnect(cB) deletes r1.  Nothing else is
\* delivered at any step.
C11_ReferenceScenario ==
    \A cA, cB \in Open :
        (cA # cB /\ rooms = <<>>) =>
        LET j1 == JoinRoom(Cur, cA, "r1", "alice")
            j2 == JoinRoom(After(j1), cB, "r1", "bob")
            s == Signal(After(j2), cB, "r1", "bob", "offer")
            l == LeaveRoom(After(s), cA, "r1", "alice")
            d == Disconnect(After(l), cB)
        IN /\ Delivered(j1.out) =
                <<[ev |-> "room-users", room |-> "r1", users |-> <<"alice">>,
                   to |-> {cA}]>>
           /\ Delivered(j2.out) =
                <<[ev |-> "user-joined", room |-> "r1", user |-> "bob",
                   to |-> {cA}],
                  [ev |-> "room-users", room |-> "r1",
                   users |-> <<"alice", "bob">>, to |-> {cA, cB}]>>
           /\ Delivered(s.out) =
                <<[ev |-> "signal", room |-> "r1", user |-> "bob",
                   signal |-> "offer", to |-> {cA}]>>
           /\ Delivered(l.out) =
                <<[ev |-> "user-left", room |-> "r1", user |-> "alice",
                   to |-> {cB}],
                  [ev |-> "room-users", room |-> "r1", users |-> <<"bob">>,
                   to |-> {cB}]>>
           /\ RoomExists(l.rooms, "r1")
           /\ Delivered(d.out) = <<>>
           /\ ~RoomExists(d.rooms, "r1")
           /\ ~j1.raised /\ ~j2.raised /\ ~s.raised /\ ~l.raised /\ ~d.raised

\* C11 witness: the run has reached the scenario's state after the two joins,
\* and its remaining three events do what the scenario says.
C11_Witness ==
    \E cA, cB \in Open :
        /\ cA # cB
        /\ rooms = ("r1" :> [socketIds |-> {cA, cB},
                             userMap |-> <<<<"alice", cA>>, <<"bob", cB>>>>])
        /\ LET s == Signal(Cur, cB, "r1", "bob", "offer")
               l == LeaveRoom(After(s), cA, "r1", "alice")
               d == Disconnect(After(l), cB)
           IN /\ SignalReaches(s.out, "r1") = {cA}
              /\ l.rooms["r1"].socketIds = {cB}
              /\ d.rooms = <<>>

\* C12: a leave-room for a room that does not exist, for a userId without a
\* userMap entry in the room, or for a userId bound to another connection
\* changes nothing in rooms, userMap, socketRooms or the adapter rooms, emits
\* no event and raises no error.
C12_StaleLeaveIsNoOp ==
    \A c \in Open, r \in RoomIdsNow, u \in UserIds :
        (\/ ~RoomExists(rooms, r)
         \/ ~UMHas(UserMapOf(rooms, r), u)
         \/ UMGet(UserMapOf(rooms, r), u) # c) =>
        LET l == LeaveRoom(Cur, c, r, u)
        IN SameRegistry(l, Cur) /\ l.out = <<>> /\ ~l.raised

\* C13: a leave-room by the connection bound to the userId takes the connection
\* out of the room's socketIds, deletes the userMap entry, takes the room out of
\* the connection's socketRooms entry and out of the adapter room, and delivers
\* user-left(userId) and then room-users, with the userMap keys after the
\* removal, to exactly the remaining members (nothing when nobody remains).
C13_EffectiveLeave ==
    \A c \in Open, r \in RoomIdsNow, u \in UserIds :
        (UMGet(UserMapOf(rooms, r), u) = c) =>
        LET l == LeaveRoom(Cur, c, r, u)
            remaining == Members(l.rooms, r)
            roster == UMKeys(UserMapOf(l.rooms, r))
        IN /\ ~l.raised
           /\ c \notin remaining
           /\ ~UMHas(UserMapOf(l.rooms, r), u)
           /\ r \notin RoomsOf(l.socketRooms, c)
           /\ c \notin l.ioRooms[r]
           /\ ~SeqHas(roster, u)
           /\ IF remaining = {}
              THEN Delivered(l.out) = <<>>
              ELSE l.out =
                     <<[ev |-> "user-left", room |-> r, user |-> u,
                        to |-> remaining],
                       [ev |-> "room-users", room |-> r, users |-> roster,
                        to |-> remaining]>>

\* C14: a join-room by a connection that is not already a member of the room
\* bound to the userId leaves the connection in socketIds with
\* userMap[userId] = connection and the room in its socketRooms entry; every
\* other member, and not the connection, is sent user-joined(userId); every
\* member, the connection included, is sent a room-users list containing
\* userId.
C14_JoinAdmits ==
    \A c \in Open, r \in RoomIdsNow, u \in UserIds :
        ~(c \in Members(rooms, r) /\ UMGet(UserMapOf(rooms, r), u) = c) =>
        LET j == JoinRoom(Cur, c, r, u)
            m == Members(j.rooms, r)
            joined == {i \in Emits(j.out, "user-joined", r) : j.out[i].user = u}
        IN /\ ~j.raised
           /\ c \in m
           /\ UMGet(UserMapOf(j.rooms, r), u) = c
           /\ r \in RoomsOf(j.socketRooms, c)
           /\ \A i \in joined : c \notin j.out[i].to
           /\ \A d \in m \ {c} : \E i \in joined : d \in j.out[i].to
           /\ \E i \in Emits(j.out, "room-users", r) :
                 SeqHas(j.out[i].users, u) /\ m \subseteq j.out[i].to

\* What C15 asks of one handler result h: every room whose socketIds or userMap
\* it changed and left non-empty got a room-users emit that reaches all of its
\* members and carries its userMap keys as they are in h.
MembershipAnnounced(h) ==
    \A r \in RoomIdsNow :
        (/\ \/ Members(h.rooms, r) # Members(rooms, r)
            \/ UserMapOf(h.rooms, r) # UserMapOf(rooms, r)
         /\ Members(h.rooms, r) # {}) =>
        \E i \in Emits(h.out, "room-users", r) :
            /\ Members(h.rooms, r) \subseteq h.out[i].to
            /\ h.out[i].users = UMKeys(UserMapOf(h.rooms, r))

\* C15: every event that changes a room's socketIds or userMap and leaves the
\* room with at least one member emits, in the same step, room-users to all
\* members of the room with the userMap keys after the change.
C15_RosterOnEveryChange ==
    \A c \in Open :
        /\ MembershipAnnounced(Disconnect(Cur, c))
        /\ \A r \in RoomIdsNow, u \in UserIds :
              /\ MembershipAnnounced(JoinRoom(Cur, c, r, u))
              /\ MembershipAnnounced(LeaveRoom(Cur, c, r, u))
              /\ \A s \in Signals : MembershipAnnounced(Signal(Cur, c, r, u, s))

\* C16: from every reachable state, for every room key and userId a client may
\* send, join-room, leave-room, signal and disconnect complete without raising
\* an error.
C16_NoHandlerRaises ==
    /\ ~raised
    /\ \A c \in Open :
        /\ ~Disconnect(Cur, c).raised
        /\ \A r \in RoomIdsNow, u \in UserIds :
              /\ ~JoinRoom(Cur, c, r, u).raised
              /\ ~LeaveRoom(Cur, c, r, u).raised
              /\ \A s \in Signals : ~Signal(Cur, c, r, u, s).raised

\* C17: a signal event changes nothing in rooms, userMap, socketRooms or the
\* adapter rooms, raises no error and sends nothing to the submitting
\* connection; when the named room does not exist or has no member other than
\* the submitter, it is delivered to no connection.
C17_SignalFrame ==
    \A c \in Open, r \in RoomIdsNow, u \in UserIds, s \in Signals :
        LET g == Signal(Cur, c, r, u, s)
        IN /\ SameRegistry(g, Cur)
           /\ ~g.raised
           /\ \A i \in 1..Len(g.out) : c \notin g.out[i].to
           /\ (Members(rooms, r) \subseteq {c}) => Delivered(g.out) = <<>>

\* C18: in every reachable state in which every connection that was opened has
\* had its disconnect processed, rooms is empty and socketRooms has no entry.
C18_StateOfOpenConnections ==
    (Open = {} /\ \E c \in Conns : sockets[c] = "closed") =>
        rooms = <<>> /\ socketRooms = <<>>

\* A disconnect of c, from the registry st, that leaves room r alone: no
\* user-left and no room-users for r, socketIds and userMap of r as before.
DisconnectSpares(st, c, r) ==
    LET d == Disconnect(st, c)
    IN /\ Emits(d.out, "user-left", r) = {}
       /\ Emits(d.out, "room-users", r) = {}
       /\ Members(d.rooms, r) = Members(st.rooms, r)
       /\ UserMapOf(d.rooms, r) = UserMapOf(st.rooms, r)
       /\ ~d.raised

\* C19: leave followed by disconnect.  A leave-room of r by the connection c
\* bound to the userId takes r out of socketRooms[c]; r comes back into
\* socketRooms[c] only by a join-room of r by c; and as long as r is not in
\* socketRooms[c], a disconnect of c emits no user-left and no room-users for
\* r and changes neither the socketIds nor the userMap of r.
C19_LeaveThenDisconnect ==
    /\ [](\A c \in Open, r \in RoomIdsNow :
            /\ \A u \in UserIds :
                  (UMGet(UserMapOf(rooms, r), u) = c) =>
                  LET l == LeaveRoom(Cur, c, r, u)
                  IN /\ r \notin RoomsOf(l.socketRooms, c)
                     /\ DisconnectSpares(After(l), c, r)
            /\ (r \notin RoomsOf(socketRooms, c)) => DisconnectSpares(Cur, c, r))
    /\ [][socketRooms' # socketRooms =>
          \A c \in Conns :
          \A r \in RoomsOf(socketRooms', c) \ RoomsOf(socketRooms, c) :
            c \in Open /\
            \E u \in UserIds :
                LET j == JoinRoom(Cur, c, r, u)
                IN /\ rooms' = j.rooms
                   /\ socketRooms' = j.socketRooms
                   /\ ioRooms' = j.ioRooms]_vars

\* C19 witness: c is bound in r1 next to another member and sits in r2 as
\* well; after its leave of r1 its disconnect announces its departure from r2
\* and leaves r1 as the leave left it.
C19_Witness ==
    \E c \in Open, u \in UserIds :
        /\ UMGet(UserMapOf(rooms, "r1"), u) = c
        /\ Members(rooms, "r1") \ {c} # {}
        /\ c \in Members(rooms, "r2")
        /\ LET l == LeaveRoom(Cur, c, "r1", u)
               d == Disconnect(After(l), c)
           IN /\ l.out # <<>>
              /\ Emits(d.out, "user-left", "r2") # {}
              /\ EmitsOf(d.out, "user-left") = Emits(d.out, "user-left", "r2")
              /\ RoomExists(d.rooms, "r1")
              /\ d.rooms["r1"] = l.rooms["r1"]

\* C20: a join-room of room r under userId u by connection c, processed while
\* userMap[u] of r is another connection c2, leaves c2 out of the socketIds of
\* r, userMap[u] different from c2, r out of socketRooms[c2] and c2 out of the
\* adapter room r, whether or not c was in socketIds before.
C20_EvictionComplete ==
    \A c \in Open, r \in RoomIdsNow, u \in UserIds :
        LET c2 == UMGet(UserMapOf(rooms, r), u)
            j == JoinRoom(Cur, c, r, u)
        IN (c2 # Undefined /\ c2 # c) =>
            /\ c2 \notin Members(j.rooms, r)
            /\ UMGet(UserMapOf(j.rooms, r), u) # c2
            /\ r \notin RoomsOf(j.socketRooms, c2)
            /\ c2 \notin j.ioRooms[r]

\* A join-room of r by c under u, from the registry st, that starts a room
\* from nothing: afterwards the userMap of r is the single entry u -> c and the
\* one room-users emit for r carries the list [u].
FreshJoin(st, c, r, u) ==
    LET j == JoinRoom(st, c, r, u)
        rosters == Emits(j.out, "room-users", r)
    IN /\ ~j.raised
       /\ Members(j.rooms, r) = {c}
       /\ UserMapOf(j.rooms, r) = <<<<u, c>>>>
       /\ Cardinality(rosters) = 1
       /\ \A i \in rosters : j.out[i].users = <<u>>

\* C21: room key reuse, in every reachable state.  When a leave-room or a disconnect empties the
\* socketIds of a room, the next join-room on that key, by any connection
\* under any userId, starts a fresh room: its room-users list is the joiner's
\* userId alone and the userMap holds the joiner's entry alone.  The same
\* holds for a join-room in any later state in which the room is still absent
\* (a key inherited from Object.prototype never names a room, so no such room
\* was ever deleted).  The events are those of the run: its room keys and
\* userIds.
C21_RoomKeyReuse ==
    [](/\ \A c \in Open :
          /\ \A r \in DOMAIN rooms, u \in users :
                LET l == LeaveRoom(Cur, c, r, u)
                IN (Members(rooms, r) # {} /\ Members(l.rooms, r) = {}) =>
                   \A c2 \in Open, u2 \in users :
                       FreshJoin(After(l), c2, r, u2)
          /\ LET d == Disconnect(Cur, c)
             IN \A r \in DOMAIN rooms :
                   (Members(rooms, r) # {} /\ Members(d.rooms, r) = {}) =>
                   \A c2 \in Open \ {c}, u2 \in users :
                       FreshJoin(After(d), c2, r, u2)
       /\ \A r \in (roomIds \cap RoomIdsNow) \ ProtoKeys :
             ~RoomExists(rooms, r) =>
             \A c2 \in Open, u2 \in users : FreshJoin(Cur, c2, r, u2))

\* C21 witness: alice's connection is the only member of r1, another
\* connection is open; the leave deletes r1, and the other connection's join
\* under bob gets the list [bob].
C21_Witness ==
    \E c, c2 \in Open :
        /\ c # c2
        /\ Members(rooms, "r1") = {c}
        /\ UserMapOf(rooms, "r1") = <<<<"alice", c>>>>
        /\ LET l == LeaveRoom(Cur, c, "r1", "alice")
               j == JoinRoom(After(l), c2, "r1", "bob")
           IN /\ ~RoomExists(l.rooms, "r1")
              /\ UserMapOf(j.rooms, "r1") = <<<<"bob", c2>>>>
              /\ \E i \in Emits(j.out, "room-users", "r1") :
                    j.out[i].users = <<"bob">>

\* C23: after a join-room of r under u by c has evicted the connection c2 that
\* held u, a leave-room of r sent by c2, under any userId, changes nothing in
\* the registry and emits nothing.
C23_EvictedLeaveIsNoOp ==
    \A c, c2 \in Open, r \in RoomIdsNow, u \in UserIds :
        (/\ c2 # c
         /\ UMGet(UserMapOf(rooms, r), u) = c2
         /\ c2 \in Members(rooms, r)) =>
        LET j == JoinRoom(Cur, c, r, u)
        IN /\ c2 \notin Members(j.rooms, r)
           /\ \A u2 \in UserIds :
                 LET l == LeaveRoom(After(j), c2, r, u2)
                 IN SameRegistry(l, j) /\ l.out = <<>> /\ ~l.raised

UserLeftJustified(h) ==
    \A i \in EmitsOf(h.out, "user-left") :
        \E d \in Members(rooms, h.out[i].room) \ Members(h.rooms, h.out[i].room) :
            UMGet(UserMapOf(rooms, h.out[i].room), h.out[i].user) = d

\* C25: user-left(u) is emitted for a room only together with the removal of
\* a member of the room bound to u, never for a connection that is not in the
\* room's socketIds.
C25_UserLeftOnlyForMembers ==
    \A c \in Open :
        /\ UserLeftJustified(Disconnect(Cur, c))
        /\ \A r \in RoomIdsNow, u \in UserIds :
              /\ UserLeftJustified(JoinRoom(Cur, c, r, u))
              /\ UserLeftJustified(LeaveRoom(Cur, c, r, u))
              /\ \A s \in Signals : UserLeftJustified(Signal(Cur, c, r, u, s))

\* C26: in every reachable state and for every room key r, the open
\* connections attached to the Socket.IO room r are exactly the socketIds of
\* the room r (none when the room does not exist).
C26_AdapterRoomIsMembers ==
    \A r \in RoomIdsNow : ioRooms[r] \cap Open = Members(rooms, r)

\* What C27 asks of the result h of one event naming room r: socketIds,
\* userMap and adapter room of every other room key are as before, and every
\* emit of h is addressed to r and reaches only connections attached to the
\* adapter room r.
OnlyRoom(h, r) ==
    /\ \/ h.rooms = rooms
       \/ [q \in (DOMAIN h.rooms) \ {r} |-> h.rooms[q]] =
             [q \in (DOMAIN rooms) \ {r} |-> rooms[q]]
    /\ \/ h.ioRooms = ioRooms
       \/ [q \in RoomIds \ {r} |-> h.ioRooms[q]] =
             [q \in RoomIds \ {r} |-> ioRooms[q]]
    /\ \A i \in 1..Len(h.out) :
          /\ h.out[i].room = r
          /\ h.out[i].to \subseteq ioRooms[r] \cup h.ioRooms[r]

\* C27: room isolation, in every reachable state.  A join-room, leave-room or signal naming room r
\* changes the socketIds, userMap and adapter room of no other room and sends
\* events to the adapter room r only, also when the sending connection is in
\* several rooms.  The events are those of the run: its room keys and userIds.
C27_RoomIsolation ==
    [](\A c \in Open, r \in roomIds \cap RoomIdsNow, u \in users :
          LET j == JoinRoom(Cur, c, r, u)
              l == LeaveRoom(Cur, c, r, u)
          IN /\ OnlyRoom(j, r)
             /\ OnlyRoom(l, r)
             /\ \A s \in Signals :
                   LET g == Signal(Cur, c, r, u, s) IN OnlyRoom(g, r))

\* C27 witness: c is in r1 and r2, d is in r2 only, e in r1 only; a signal of
\* c for r1 reaches e alone, and c's leave of r1 tells e alone and leaves r2
\* with c and d.
C27_Witness ==
    \E c, d, e \in Open :
        /\ Members(rooms, "r1") = {c, e}
        /\ Members(rooms, "r2") = {c, d}
        /\ c # d /\ c # e /\ d # e
        /\ \E u \in UserIds :
              /\ UMGet(UserMapOf(rooms, "r1"), u) = c
              /\ LET s == Signal(Cur, c, "r1", u, "offer")
                     l == LeaveRoom(Cur, c, "r1", u)
                 IN /\ SignalReaches(s.out, "r1") = {e}
                    /\ \A i \in 1..Len(l.out) : l.out[i].to = {e}
                    /\ l.out # <<>>
                    /\ Members(l.rooms, "r2") = {c, d}

\* The registry of a handler result as mappings: userMap as a set of
\* userId/connection pairs and socketRooms entries as sets, without the
\* insertion order the Maps and Sets of the code keep.
AsMappings(st) ==
    [rooms |-> [q \in DOMAIN st.rooms |->
                   [socketIds |-> st.rooms[q].socketIds,
                    userMap |-> SeqSet(st.rooms[q].userMap)]],
     socketRooms |-> [d \in DOMAIN st.socketRooms |-> SeqSet(st.socketRooms[d])],
     ioRooms |-> st.ioRooms]

\* C28: refresh race.  With c1 in the room r bound to u and c2 a fresh
\* connection (in no room, bound nowhere), join-room(r, u) by c2 and the
\* disconnect of c1 give the same registry in either order: u is bound to c2,
\* c1 is neither in socketIds nor a userMap value of r and has no socketRooms
\* entry; and when the join comes first, the disconnect emits no user-left(u)
\* and no room-users for r.
C28_RefreshRace ==
    \A c1, c2 \in Open, r \in RoomIdsNow, u \in UserIds :
        (/\ c1 # c2
         /\ c1 \in Members(rooms, r)
         /\ UMGet(UserMapOf(rooms, r), u) = c1
         /\ RoomsOf(socketRooms, c2) = {}
         /\ \A q \in DOMAIN rooms :
               c2 \notin rooms[q].socketIds \cup UMValues(rooms[q].userMap)) =>
        LET j == JoinRoom(Cur, c2, r, u)
            d == Disconnect(After(j), c1)
            d2 == Disconnect(Cur, c1)
            j2 == JoinRoom(After(d2), c2, r, u)
        IN /\ AsMappings(d) = AsMappings(j2)
           /\ UMGet(UserMapOf(d.rooms, r), u) = c2
           /\ c1 \notin Members(d.rooms, r) \cup UMValues(UserMapOf(d.rooms, r))
           /\ c1 \notin DOMAIN d.socketRooms
           /\ \A i \in Emits(d.out, "user-left", r) : d.out[i].user # u
           /\ Emits(d.out, "room-users", r) = {}

\* C29: once the room page has mounted and the camera is granted, the client
\* reaches a state after which it sends no more join-room and no more
\* leave-room: the effect does not start itself again for ever.
C29_PageSettles ==
    granted =>
        /\ <>(rendered # <<>>)
        /\ <>[](joinRoomEmits = 0) \/ <>[](joinRoomEmits = 1)
        /\ <>[](leaveRoomEmits = 0) \/ <>[](leaveRoomEmits = 1)

====
